---- MODULE Spec2Model ----
(***************************************************************************)
(* Model of slack_utils/slack.py: the message collector                    *)
(* (Slack.load_messages_from_channel), the message deleter                 *)
(* (Slack.delete_channel_messages) and the orchestration loop              *)
(* (Slack.delete_messages), run against a remote service whose answers     *)
(* are nondeterministic.                                                   *)
(*                                                                         *)
(* Time is counted in ticks: one tick is the resolution of a message       *)
(* identifier (1e-6 s).  A message identifier is the string the API        *)
(* returns, modelled as a fixed-width sequence of decimal digits; float()  *)
(* of it is its numeric value.  Floats near a present-day timestamp are    *)
(* spaced finer than one tick, so a cursor is kept in units of             *)
(* 1/Resolution tick and the subtraction of line 128 carries a rounding    *)
(* error of less than one tick.                                            *)
(***************************************************************************)
EXTENDS Integers, Sequences, FiniteSets, TLC

\* ------------------------------------------------------------- bounds ----
PageSize == 2          \* count=1000 of the history call, scaled down
Resolution == 2        \* representable cursor values per tick
TicksPerDay == 2       \* length of a day, scaled down
Now == 50              \* arrow.now(), in ticks
SmallSpan == 3         \* identifiers of a small channel: the last SmallSpan ticks
MaxRules == 2          \* rules passed to delete_messages
CountCap == 2          \* the per-rule counter of passes stops here

\* -------------------------------------------------- program constants ----
MaxIterations == 10
DefaultMinDaysOld == 15
DefaultRetryAfter == 2
Epsilon == 1
oldest == 0

None == "None"
Unset == <<>>          \* an optional number that was not given (None)
Given(n) == <<n>>      \* an optional number that was given
NoKey == "<no key>"

\* ------------------------------------------------- identifiers (ts) ------
\* The 'ts' string of a message whose timestamp is t ticks.
TsStr(t) == <<t \div 10, t % 10>>

\* float(ts)
Float(s) == s[1] * 10 + s[2]

\* a < b for two strings, as Python compares them (lexicographically)
StrLess(a, b) ==
  \E i \in 1..Len(a) :
     /\ i <= Len(b)
     /\ \A j \in 1..(i - 1) : a[j] = b[j]
     /\ a[i] < b[i]

\* min() of a non-empty set of strings
MinStr(S) == CHOOSE a \in S : \A b \in S \ {a} : StrLess(a, b)

\* ---------------------------------------------------- remote service -----
ChannelIds == {"C1", "C2"}

\* conversations.list: the (id, name) pairs of the existing channels
RemoteChannels == {<<"C1", <<"general">>>>, <<"C2", <<"random">>>>}

\* Attributes of the message at tick t under attribute pattern p: pattern 1
\* is a channel of plain messages; under patterns 2 and 3 runs of messages
\* have another type, or carry no subtype.
OddRun(t) == (t \div (2 * PageSize)) % 2 = 1

MessageAt(t, p) ==
  [ts |-> TsStr(t),
   type |-> IF p = 2 /\ OddRun(t) THEN "file" ELSE "message",
   subtype |-> IF p = 1 \/ (p = 3 /\ OddRun(t)) THEN NoKey ELSE "bot_message"]

Patterns == 1..3

Msgs(T, p) == {MessageAt(t, p) : t \in T}

SmallTs == (Now - SmallSpan)..(Now - 1)

BigN == MaxIterations * PageSize + 1

SmallContents(P) == {Msgs(T, p) : T \in SUBSET SmallTs, p \in P}

\* Channels of n messages: two ticks apart (up to one more than the collector
\* can hold), or on consecutive ticks (a few pages).
BigContents ==
  {Msgs({2 * i : i \in 1..n}, p) : n \in 1..BigN, p \in Patterns}
  \cup {Msgs(1..n, p) : n \in 1..(2 * PageSize + 1), p \in Patterns}

TsOf(M) == {m.ts : m \in M}

\* Messages of M strictly inside the window (oldest, latest), inclusive=False.
Window(M, latest, old) ==
  {m \in M : old < Float(m.ts) * Resolution /\ Float(m.ts) * Resolution < latest}

\* The newest (at most) PageSize messages of W.
NewestPage(W) ==
  {m \in W : Cardinality({x \in W : Float(x.ts) > Float(m.ts)}) < PageSize}

\* Answers of conversations.history.  A strict service answers with the
\* newest page of the window; a loose one with any page of the channel.
HistoryResponses(M, latest, strict) ==
  {[ok |-> FALSE, error |-> e, messages |-> {}] : e \in {"channel_not_found", "fatal_error"}}
  \cup
  {[ok |-> TRUE, error |-> None, messages |-> P] :
     P \in IF strict THEN {NewestPage(Window(M, latest, oldest))}
           ELSE {Q \in SUBSET M : Cardinality(Q) <= PageSize}}

\* Answers of chat.delete: success, or a failure whose response headers may
\* carry a rate-limit signal under either spelling of the header name.
HeaderNames == {"Retry-After", "retry-after"}

\* Header values: a number of seconds, an empty value, an unparsable value.
RateLimitHeaders ==
  {[k \in {"Retry-After"} |-> <<"3">>],
   [k \in {"retry-after"} |-> <<"3">>],
   [k \in {"Retry-After"} |-> <<>>],
   [k \in {"retry-after"} |-> <<"s">>],
   [k \in HeaderNames |-> IF k = "Retry-After" THEN <<>> ELSE <<"3">>],
   [k \in HeaderNames |-> IF k = "Retry-After" THEN <<"1", "2">> ELSE <<"s">>]}

NoHeaders == [k \in {} |-> <<>>]

DeleteResponses ==
  {[ok |-> TRUE, error |-> None, headers |-> NoHeaders]}
  \cup {[ok |-> FALSE, error |-> "message_not_found", headers |-> NoHeaders]}
  \cup {[ok |-> FALSE, error |-> "ratelimited", headers |-> h] :
          h \in RateLimitHeaders}

\* ----------------------------------------------------------- helpers -----
DigitChars == <<"0", "1", "2", "3", "4", "5", "6", "7", "8", "9">>

IsDigit(c) == \E i \in 1..Len(DigitChars) : DigitChars[i] = c

DigitVal(c) == (CHOOSE i \in 1..Len(DigitChars) : DigitChars[i] = c) - 1

\* whether int(s) accepts the string s
IsInt(s) == Len(s) > 0 /\ \A i \in 1..Len(s) : IsDigit(s[i])

RECURSIVE IntOf(_)
\* int(s) of a string of decimal digits
IntOf(s) ==
  IF Len(s) = 0 THEN 0
  ELSE 10 * IntOf(SubSeq(s, 1, Len(s) - 1)) + DigitVal(s[Len(s)])

\* str.replace('#', '')
StripHash(name) == SelectSeq(name, LAMBDA c : c # "#")

\* variant: the shift goes forward in time
timestamp_x_days_ahead(days) == (Now + days * TicksPerDay) * Resolution

\* timestamp_x_days_ago(days), as a cursor
timestamp_x_days_ago(days) == (Now - days * TicksPerDay) * Resolution

\* Python truthiness of a str-or-None argument
Truthy(x) == x # None /\ x # ""

\* line 81-83
\* variant: the default replaces every falsy value
EffectiveMinDaysFalsy(min_days_old) ==
  IF min_days_old = Unset \/ min_days_old[1] = 0
  THEN DefaultMinDaysOld
  ELSE min_days_old[1]

EffectiveMinDays(min_days_old) ==
  IF min_days_old = Unset THEN DefaultMinDaysOld ELSE min_days_old[1]

\* variant: the ok flag of the answer is not looked at
HistoryNeverFailed(res) == FALSE

\* line 99
HistoryFailed(res) == ~res.ok

\* line 105-106
FilterByType(msgs, message_type) ==
  IF Truthy(message_type) THEN {m \in msgs : m.type = message_type} ELSE msgs

\* line 108-109: x['subtype'] raises KeyError on a message without the key
SubtypeKeyError(msgs, message_subtype) ==
  Truthy(message_subtype) /\ \E m \in msgs : m.subtype = NoKey

FilterBySubtype(msgs, message_subtype) ==
  IF Truthy(message_subtype) THEN {m \in msgs : m.subtype = message_subtype} ELSE msgs

\* variant: only an empty page stops the loop
StopPagingOnEmpty(ts_new_messages, tsAll) == ts_new_messages = {}

\* line 117
StopPaging(ts_new_messages, tsAll) ==
  ts_new_messages = {} \/ ts_new_messages \subseteq tsAll

\* variant: the page replaces the accumulated set
AccumulateOverwrite(tsAll, ts_new_messages) == ts_new_messages

\* line 122
Accumulate(tsAll, ts_new_messages) == tsAll \cup ts_new_messages

\* line 128; r is the rounding error of the float subtraction
\* variant: the epsilon is not subtracted
NextLatestNoEpsilon(ts_new_messages, r) ==
  Float(MinStr(ts_new_messages)) * Resolution + r

NextLatest(ts_new_messages, r) ==
  (Float(MinStr(ts_new_messages)) - Epsilon) * Resolution + r

RoundingErrors == 0..(Resolution - 1)

\* variant: off by one
LoopGuardInclusive(i) == i <= MaxIterations

\* line 94
LoopGuard(i) == i < MaxIterations

\* variant: only one spelling of the header name is looked up
HasRetryAfterOneSpelling(headers) == "Retry-After" \in DOMAIN headers

\* line 153
HasRetryAfter(headers) == \E it \in HeaderNames : it \in DOMAIN headers

\* headers.get(k) is truthy: the key is present with a non-empty value
TruthyHeader(headers, k) == k \in DOMAIN headers /\ headers[k] # <<>>

\* line 154: the operand int() is applied to is a header value
\* (when neither header is truthy it is the number 2)
RetryAfterIsHeader(headers) ==
  TruthyHeader(headers, "Retry-After") \/ TruthyHeader(headers, "retry-after")

RetryAfterOperand(headers) ==
  IF TruthyHeader(headers, "Retry-After") THEN headers["Retry-After"]
  ELSE headers["retry-after"]

\* line 154: int() raises ValueError
RetryAfterRaises(headers) ==
  RetryAfterIsHeader(headers) /\ ~IsInt(RetryAfterOperand(headers))

\* line 154: retry_after
RetryAfter(headers) ==
  IF RetryAfterIsHeader(headers) THEN IntOf(RetryAfterOperand(headers))
  ELSE DefaultRetryAfter

\* variant: the raise of line 160 is active
RaisesOnDeleteErrorEnabled == TRUE

\* lines 157-160: a failure without a rate-limit signal is logged; the raise
\* is commented out
RaisesOnDeleteError == FALSE

\* variant: the identifier stays in the pending set
RemoveMessageKept(missing, ts_message) == missing

\* line 161
RemoveMessage(missing, ts_message) == missing \ {ts_message}

\* lines 52-57: channel name -> id
\* variant: a name that is not in the list maps to a channel all the same
MappingChannelsOrDefault ==
  [n \in {StripHash(c[2]) : c \in RemoteChannels} \cup {<<"nope">>} |->
     IF \E c \in RemoteChannels : StripHash(c[2]) = n
     THEN (CHOOSE c \in RemoteChannels : StripHash(c[2]) = n)[1]
     ELSE "C1"]

MappingChannelsAndId ==
  [n \in {StripHash(c[2]) : c \in RemoteChannels} |->
     (CHOOSE c \in RemoteChannels : StripHash(c[2]) = n)[1]]

\* lines 59-64: the rules with their channel ids; the rules are processed in
\* order and the first unknown channel raises
Resolvable(rule) == StripHash(rule.channel) \in DOMAIN MappingChannelsAndId

FirstUnresolvable(rs) ==
  CHOOSE i \in 1..Len(rs) :
     ~Resolvable(rs[i]) /\ \A j \in 1..(i - 1) : Resolvable(rs[j])

map_channels_to_their_id(rs) ==
  [i \in 1..Len(rs) |->
     [channel |-> StripHash(rs[i].channel), days |-> rs[i].days,
      id |-> MappingChannelsAndId[StripHash(rs[i].channel)]]]

\* ------------------------------------------------------------- state -----
VARIABLES
  entry,              \* the operation the caller invoked
  strict,             \* whether the remote history call behaves as documented
  history,            \* remote: channel id -> messages of the channel
  pc,                 \* position of the program
  error,              \* the exception raised, if any
  rules, ruleIdx,     \* delete_messages: the rules and the rule being processed
  channel_id, min_days_old, message_type, message_subtype,
  minimum_timestamp, ts_messages, iterations,
  messages, missing_messages, number_of_deleted_messages,
  todo,               \* identifiers the for loop of the pass has not reached
  result,             \* what the last pass of delete_channel_messages returned
  requests,           \* history requests issued by the current collection
  lastErr,            \* the error text of the last history answer, None if ok
  fetched,            \* union of the filtered identifiers of the pages fetched
  lastPage,           \* what the last page contributed: "fresh" (only new
                      \* identifiers), "partial" (new and repeated ones),
                      \* "stale" (no new one), "none" (no page yet)
  windowOk,           \* every page so far lay inside the requested window
  newestOk,           \* every page of this collection was the newest of its window
  reqCount,           \* delete requests of the current pass, per identifier
  lastReq,            \* the last delete request of the rule and its answer
  failedIds,          \* identifiers of the rule whose delete failed, no rate limit
  collects,           \* collector invocations of the current rule
  passes,             \* deleter invocations of the current rule (up to CountCap)
  slept,              \* the run has slept during the current rule
  limited,            \* a delete answer of the rule carried a rate-limit signal
  pause,              \* the last pause a pass of the rule returned
  nap,                \* the sleeps since the last pause, until the next request
  owed,               \* the identifier a rate limit left pending, until requested again
  lastMin             \* the smallest identifier of the last page that was added

vars == <<entry, strict, history, pc, error, rules, ruleIdx, channel_id,
          min_days_old, message_type, message_subtype, minimum_timestamp,
          ts_messages, iterations, messages, missing_messages,
          number_of_deleted_messages, todo, result, requests,
          lastErr, fetched, lastPage, windowOk, newestOk, reqCount, lastReq,
          failedIds, collects, passes, slept, limited, pause, nap, owed,
          lastMin>>

envVars == <<entry, strict>>
argVars == <<channel_id, min_days_old, message_type, message_subtype>>
loadVars == <<minimum_timestamp, ts_messages, iterations, requests,
              lastErr, fetched, lastPage, newestOk, lastMin>>
ruleVars == <<collects, passes, slept, limited, pause, nap, owed>>
passVars == <<messages, missing_messages, number_of_deleted_messages, todo,
              result, reqCount>>

PageKind(ts_new_messages, tsAll) ==
  IF ts_new_messages \ tsAll = {} THEN "stale"
  ELSE IF ts_new_messages \cap tsAll = {} THEN "fresh" ELSE "partial"

NoError == [kind |-> None, channel |-> None, text |-> None]
NoResult == [kind |-> "unset", pending |-> {}, wait |-> 0]
NoReq == [ts |-> <<>>, channel |-> None, ok |-> TRUE, headers |-> NoHeaders]
NoCount == [t \in {} |-> 0]
NoPause == [set |-> FALSE, pending |-> {}, channel |-> None]
NoNap == [set |-> FALSE, wait |-> 0, seconds |-> 0, count |-> 0]

\* a counter that stops at CountCap
Inc(n) == IF n < CountCap THEN n + 1 ELSE n

\* the smallest identifier of a page, by value
NumMin(S) == CHOOSE a \in S : \A b \in S : Float(a) <= Float(b)

\* variant: an empty set is passed on to the deletion
NothingToDeleteNever(ts) == FALSE

\* line 197: if not ts_messages
NothingToDelete(ts) == ts = {}

\* line 207: if not res
PassDone(res) == res.kind = None

\* variant: the whole collected set is passed again
NextPassAll(res) == ts_messages

\* line 211: missing_messages, delay = res
NextPassMessages(res) == res.pending

\* variant: a pass starts from the whole collected set as pending set
InitialMissingAll(msgs) == ts_messages

\* line 143: missing_messages = set(messages)
InitialMissing(msgs) == msgs

\* variant: the sleep has a fixed length
SleepDefault(delay) == DefaultRetryAfter

\* line 212: time.sleep(delay)
SleepSeconds(delay) == delay

Rule(channel, days) == [channel |-> channel, days |-> days, id |-> None]

RuleChoices ==
  {Rule(<<"#", "general">>, <<"0">>), Rule(<<"#", "general">>, <<"1">>),
   Rule(<<"random">>, <<"1">>), Rule(<<"#", "nope">>, <<"1">>)}

RuleLists == UNION {[1..n -> RuleChoices] : n \in 0..MaxRules}

CommonInit ==
  /\ pc = "start"
  /\ error = NoError
  /\ ruleIdx = 0
  /\ channel_id = "C1"
  /\ minimum_timestamp = 0
  /\ ts_messages = {}
  /\ iterations = 0
  /\ messages = {}
  /\ missing_messages = {}
  /\ number_of_deleted_messages = 0
  /\ todo = {}
  /\ result = NoResult
  /\ requests = 0
  /\ lastErr = None
  /\ fetched = {}
  /\ lastPage = "none"
  /\ windowOk = TRUE
  /\ newestOk = TRUE
  /\ reqCount = NoCount
  /\ lastReq = NoReq
  /\ failedIds = {}
  /\ collects = 0
  /\ passes = 0
  /\ slept = FALSE
  /\ limited = FALSE
  /\ pause = NoPause
  /\ nap = NoNap
  /\ owed = <<>>
  /\ lastMin = <<>>

\* A direct call of load_messages_from_channel on channel C1.
InitLoad ==
  /\ entry = "load_messages_from_channel"
  /\ strict \in BOOLEAN
  /\ \E M \in (IF strict THEN BigContents \cup SmallContents(Patterns)
                         ELSE SmallContents(Patterns)) :
        history = [c \in ChannelIds |-> IF c = "C1" THEN M ELSE {}]
  /\ rules = <<>>
  /\ min_days_old \in {Unset, Given(0), Given(1)}
  /\ message_type \in {None, "message"}
  /\ message_subtype \in {None, "bot_message"}

\* A call of delete_messages with a list of rules (a single rule when the
\* history call misbehaves).
InitDelete ==
  /\ entry = "delete_messages"
  /\ strict \in BOOLEAN
  /\ \E M \in SmallContents({1}) :
        history = [c \in ChannelIds |->
                     IF c = "C1" THEN M ELSE Msgs({Now - SmallSpan}, 1)]
  /\ rules \in (IF strict THEN RuleLists ELSE {rs \in RuleLists : Len(rs) <= 1})
  /\ min_days_old = Unset
  /\ message_type = None
  /\ message_subtype = None

Init == CommonInit /\ (InitLoad \/ InitDelete)

\* load_messages_from_channel, lines 81-90: the locals before the loop
LoadLocals(days) ==
  /\ minimum_timestamp' = timestamp_x_days_ago(EffectiveMinDays(days))
  /\ ts_messages' = {}
  /\ iterations' = 0
  /\ requests' = 0
  /\ lastErr' = None
  /\ fetched' = {}
  /\ lastPage' = "none"
  /\ newestOk' = TRUE
  /\ lastMin' = <<>>

\* The collector has returned: of its frame only the returned set remains.
CollectorGone ==
  /\ minimum_timestamp' = 0
  /\ iterations' = 0
  /\ requests' = 0
  /\ lastErr' = None
  /\ fetched' = {}
  /\ lastPage' = "none"
  /\ newestOk' = TRUE
  /\ lastMin' = <<>>

\* delete_messages, lines 192-195: the next rule, or the end of the run
BeginRule(i, rs) ==
  /\ ruleIdx' = i
  /\ lastReq' = NoReq
  /\ failedIds' = {}
  /\ passes' = 0
  /\ slept' = FALSE
  /\ limited' = FALSE
  /\ pause' = NoPause
  /\ nap' = NoNap
  /\ owed' = <<>>
  /\ collects' = IF i <= Len(rs) THEN 1 ELSE 0
  /\ IF i <= Len(rs)
     THEN /\ pc' = "load"
          /\ channel_id' = rs[i].id
          /\ min_days_old' = Given(IntOf(rs[i].days))
          /\ message_type' = None
          /\ message_subtype' = None
          /\ LoadLocals(Given(IntOf(rs[i].days)))
     ELSE /\ pc' = "done"
          /\ CollectorGone
          /\ UNCHANGED <<argVars, ts_messages>>

\* a direct call of load_messages_from_channel
LoadCall ==
  /\ pc = "start"
  /\ entry = "load_messages_from_channel"
  /\ LoadLocals(min_days_old)
  /\ pc' = "load"
  /\ UNCHANGED <<envVars, history, error, rules, ruleIdx, argVars, passVars,
                 windowOk, lastReq, failedIds, ruleVars>>

\* delete_messages, lines 183-195, with map_channels_to_their_id
DeleteMessagesCall ==
  /\ pc = "start"
  /\ entry = "delete_messages"
  /\ IF \E i \in 1..Len(rules) : ~Resolvable(rules[i])
     THEN /\ pc' = "raised"
          /\ error' = [kind |-> "channel", channel |-> None,
                       text |-> StripHash(rules[FirstUnresolvable(rules)].channel)]
          /\ UNCHANGED <<rules, ruleIdx, argVars, loadVars, lastReq, failedIds,
                         ruleVars>>
     ELSE /\ rules' = map_channels_to_their_id(rules)
          /\ error' = error
          /\ BeginRule(1, map_channels_to_their_id(rules))
  /\ UNCHANGED <<envVars, history, passVars, windowOk>>

\* load_messages_from_channel, lines 94-132: one iteration of the loop
HistoryRequest ==
  /\ pc = "load"
  /\ \E res \in HistoryResponses(history[channel_id], minimum_timestamp, strict),
        r \in RoundingErrors :
       LET W == Window(history[channel_id], minimum_timestamp, oldest)
           typed == FilterByType(res.messages, message_type)
           new_messages == FilterBySubtype(typed, message_subtype)
           ts_new_messages == TsOf(new_messages)
       IN
       /\ requests' = requests + 1
       /\ lastErr' = res.error
       /\ IF HistoryFailed(res)
          THEN /\ pc' = "raised"
               /\ error' = [kind |-> "history", channel |-> channel_id, text |-> res.error]
               /\ UNCHANGED <<ts_messages, minimum_timestamp, iterations,
                              fetched, lastPage, windowOk, newestOk, lastMin>>
          ELSE
          /\ windowOk' = (windowOk /\ res.messages \subseteq W)
          /\ newestOk' = (newestOk /\ res.messages = NewestPage(W))
          /\ IF SubtypeKeyError(typed, message_subtype)
             THEN /\ pc' = "raised"
                  /\ error' = [kind |-> "KeyError", channel |-> None, text |-> "subtype"]
                  /\ UNCHANGED <<ts_messages, minimum_timestamp, iterations,
                                 fetched, lastPage, lastMin>>
             ELSE
             /\ error' = error
             /\ fetched' = fetched \cup ts_new_messages
             /\ lastPage' = PageKind(ts_new_messages, ts_messages)
             /\ IF StopPaging(ts_new_messages, ts_messages)
                THEN /\ pc' = "loaded"
                     /\ UNCHANGED <<ts_messages, minimum_timestamp, iterations,
                                    lastMin>>
                ELSE /\ ts_messages' = Accumulate(ts_messages, ts_new_messages)
                     /\ lastMin' = NumMin(ts_new_messages)
                     /\ minimum_timestamp' = NextLatest(ts_new_messages, r)
                     /\ iterations' = iterations + 1
                     /\ pc' = IF LoopGuard(iterations + 1) THEN "load" ELSE "loaded"
  /\ UNCHANGED <<envVars, history, rules, ruleIdx, argVars, passVars,
                 lastReq, failedIds, ruleVars>>

\* delete_channel_messages, lines 143-144: the locals of a pass over msgs
PassLocals(msgs) ==
  /\ messages' = msgs
  /\ missing_messages' = InitialMissing(msgs)
  /\ number_of_deleted_messages' = 0
  /\ todo' = msgs
  /\ reqCount' = [t \in msgs |-> 0]
  /\ result' = NoResult

\* delete_messages, lines 195-206: the collector has returned
AfterLoad ==
  /\ pc = "loaded"
  /\ entry = "delete_messages"
  /\ IF NothingToDelete(ts_messages)
     THEN /\ BeginRule(ruleIdx + 1, rules)
          /\ UNCHANGED passVars
     ELSE /\ PassLocals(ts_messages)
          /\ pc' = "delete"
          /\ passes' = Inc(passes)
          /\ CollectorGone
          /\ UNCHANGED <<ruleIdx, argVars, ts_messages, lastReq, failedIds,
                         collects, slept, limited, pause, nap, owed>>
  /\ UNCHANGED <<envVars, history, error, rules, windowOk>>

\* delete_channel_messages, lines 149-164: one iteration of the for loop
\* (the order in which a set is iterated is arbitrary)
DeleteRequest ==
  /\ pc = "delete"
  /\ \E ts_message \in todo, res \in DeleteResponses :
       /\ res.ok => \E m \in history[channel_id] : m.ts = ts_message
       /\ reqCount' = [reqCount EXCEPT ![ts_message] = @ + 1]
       /\ lastReq' = [ts |-> ts_message, channel |-> channel_id,
                      ok |-> res.ok, headers |-> res.headers]
       /\ history' = IF res.ok
                     THEN [history EXCEPT ![channel_id] =
                             {m \in @ : m.ts # ts_message}]
                     ELSE history
       /\ limited' = (limited \/ (~res.ok /\ DOMAIN res.headers \cap HeaderNames # {}))
       /\ owed' = IF ts_message = owed THEN <<>> ELSE owed
       /\ IF ~res.ok /\ HasRetryAfter(res.headers)
          THEN IF RetryAfterRaises(res.headers)
               THEN /\ pc' = "raised"
                    /\ error' = [kind |-> "ValueError", channel |-> None,
                                 text |-> "int"]
                    /\ UNCHANGED <<missing_messages, number_of_deleted_messages,
                                   todo, result, failedIds, pause>>
                    /\ nap' = NoNap
               ELSE /\ pc' = "returned"
                    /\ result' = [kind |-> "pause", pending |-> missing_messages,
                                  wait |-> RetryAfter(res.headers)]
                    /\ pause' = [set |-> TRUE, pending |-> missing_messages,
                                 channel |-> channel_id]
                    /\ nap' = [set |-> TRUE, wait |-> RetryAfter(res.headers),
                               seconds |-> 0, count |-> 0]
                    /\ UNCHANGED <<missing_messages, number_of_deleted_messages,
                                   todo, error, failedIds>>
          ELSE IF ~res.ok /\ RaisesOnDeleteError
          THEN /\ pc' = "raised"
               /\ error' = [kind |-> "delete", channel |-> channel_id,
                            text |-> res.error]
               /\ UNCHANGED <<missing_messages, number_of_deleted_messages,
                              todo, result, failedIds, pause>>
               /\ nap' = NoNap
          ELSE /\ missing_messages' = RemoveMessage(missing_messages, ts_message)
               /\ pause' = pause
               /\ nap' = NoNap
               /\ number_of_deleted_messages' = number_of_deleted_messages + 1
               /\ todo' = todo \ {ts_message}
               /\ failedIds' = IF res.ok THEN failedIds
                               ELSE failedIds \cup {ts_message}
               /\ error' = error
               /\ IF todo \ {ts_message} = {}
                  THEN /\ pc' = "returned"
                       /\ result' = [kind |-> None, pending |-> {}, wait |-> 0]
                  ELSE /\ pc' = "delete"
                       /\ result' = result
  /\ UNCHANGED <<envVars, rules, ruleIdx, argVars, loadVars, messages, windowOk,
                 collects, passes, slept>>

\* delete_messages, lines 206-213: the pass has returned
AfterPass ==
  /\ pc = "returned"
  /\ IF PassDone(result)
     THEN /\ BeginRule(ruleIdx + 1, rules)
          /\ UNCHANGED passVars
     ELSE /\ PassLocals(NextPassMessages(result))
          /\ pc' = "delete"
          /\ nap' = [nap EXCEPT !.seconds = @ + SleepSeconds(result.wait),
                                !.count = @ + 1]
          /\ slept' = TRUE
          /\ passes' = Inc(passes)
          /\ owed' = lastReq.ts
          /\ lastReq' = [lastReq EXCEPT !.headers = NoHeaders]
          /\ UNCHANGED <<ruleIdx, argVars, loadVars, failedIds, collects,
                         limited, pause>>
  /\ UNCHANGED <<envVars, history, error, rules, windowOk>>

Next ==
  \/ LoadCall
  \/ DeleteMessagesCall
  \/ HistoryRequest
  \/ AfterLoad
  \/ DeleteRequest
  \/ AfterPass

Spec == Init /\ [][Next]_vars

\* ------------------------------------------------------------ claims -----
\* The cutoff of the current collection, in ticks: now minus the minimum age.
CutoffTicks ==
  Now - (IF min_days_old = Unset THEN DefaultMinDaysOld ELSE min_days_old[1])
        * TicksPerDay

\* Messages of the current channel strictly older than the cutoff.
OlderMessages == {m \in history[channel_id] : Float(m.ts) < CutoffTicks}

\* A delete request has been answered in the current rule.
Requested == lastReq.ts # <<>>

\* The last delete answer carries a rate-limit signal.
LastSignalled ==
  Requested /\ ~lastReq.ok /\ DOMAIN lastReq.headers \cap HeaderNames # {}

\* The non-empty values of the rate-limit headers of the last delete answer.
LastSignalValues ==
  {lastReq.headers[k] : k \in DOMAIN lastReq.headers} \ {<<>>}

\* The last delete answer carries a rate-limit signal with the wait value w.
LastSignalCarries(w) ==
  /\ LastSignalled
  /\ \E v \in LastSignalValues : LastSignalValues = {v} /\ IsInt(v) /\ IntOf(v) = w

\* The last delete answer is a failure without a rate-limit signal.
LastFailedPlain ==
  Requested /\ ~lastReq.ok /\ DOMAIN lastReq.headers \cap HeaderNames = {}

\* Identifiers of the current pass that have received a delete request.
Attempted == {t \in messages : reqCount[t] > 0}

\* C1: when the k-th delete request of a pass is answered with a rate-limit
\* signal carrying the wait value w, the pass has returned at once with
\* (pending, w), where pending is the k-th identifier together with the
\* identifiers not yet attempted; no identifier attempted before is pending
\* and the k-th identifier was requested once.
C1_RateLimitPause ==
  \A w \in 0..12 :
    (pc \in {"delete", "returned", "raised"} /\ LastSignalCarries(w)) =>
       /\ pc = "returned"
       /\ result.kind = "pause"
       /\ result.wait = w
       /\ result.pending = {lastReq.ts} \cup (messages \ Attempted)
       /\ (Attempted \ {lastReq.ts}) \cap result.pending = {}
       /\ \A t \in messages : reqCount[t] <= 1

\* C1 witness: a pass paused at its second or later request with more than
\* one identifier pending.
C1_Witness ==
  /\ pc = "returned"
  /\ LastSignalCarries(3)
  /\ Cardinality(Attempted) >= 2
  /\ Cardinality(result.pending) >= 2

\* C2: a pass that ends without a rate-limit signal has issued exactly one
\* delete request for each identifier of its input, has an empty pending set
\* and returns None.
C2_CompletePass ==
  (pc = "returned" /\ Requested /\ ~LastSignalled) =>
     /\ result.kind = None
     /\ missing_messages = {}
     /\ \A t \in messages : reqCount[t] = 1

\* C2 witness: a pass over at least two identifiers has completed.
C2_Witness ==
  /\ pc = "returned"
  /\ Requested /\ ~LastSignalled
  /\ Cardinality(messages) >= 2

C4_OnlyOlderDeleted ==
  windowOk =>
     /\ \A t \in ts_messages : Float(t) < CutoffTicks
     /\ Requested =>
          /\ lastReq.ts \in ts_messages
          /\ Float(lastReq.ts) < CutoffTicks
          /\ lastReq.channel = channel_id

\* C4 witness: a message has been deleted while the channel holds a message
\* at or after the cutoff.
C4_Witness ==
  /\ windowOk
  /\ Requested /\ lastReq.ok
  /\ \E m \in history[channel_id] : Float(m.ts) >= CutoffTicks

\* C5: without a filter, when the channel holds at most ten pages of messages
\* older than the cutoff and every page was the newest page of its window,
\* the collector returns exactly the identifiers older than the cutoff.
C5_Complete ==
  (/\ pc = "loaded"
   /\ ~Truthy(message_type) /\ ~Truthy(message_subtype)
   /\ newestOk
   /\ Cardinality(OlderMessages) <= MaxIterations * PageSize)
  => ts_messages = TsOf(OlderMessages)

\* No two messages of the channel lie on consecutive ticks.
Spaced == \A m, n \in history[channel_id] : Float(m.ts) # Float(n.ts) + 1

\* The messages a filter asks for.
Matching ==
  {m \in OlderMessages :
     /\ Truthy(message_type) => m.type = message_type
     /\ Truthy(message_subtype) => m.subtype = message_subtype}

\* C6: with a filter, the collector returns every message older than the
\* cutoff that matches it (within the cap of ten pages).
C6_FilterComplete ==
  (/\ pc = "loaded"
   /\ Truthy(message_type) \/ Truthy(message_subtype)
   /\ newestOk /\ Spaced
   /\ iterations < MaxIterations)
  => TsOf(Matching) \subseteq ts_messages

\* C7: the collector issues a further history request only after a page that
\* contributed a new identifier; after the first page that contributed none
\* it has returned the set accumulated so far, that page being its last
\* request.
C7_StopOnStalePage ==
  /\ pc = "load" => (requests = iterations /\ (requests = 0 \/ lastPage # "stale"))
  /\ (pc = "loaded" /\ lastPage = "stale") =>
        (requests = iterations + 1 /\ ts_messages = fetched)

\* C7 witness: the collector returned on a page without new identifiers
\* before the tenth page.
C7_Witness ==
  /\ pc = "loaded"
  /\ lastPage = "stale"
  /\ iterations \in 1..(MaxIterations - 2)

\* C8: a collection issues at most ten history requests and holds at most
\* ten pages of identifiers; at the cap it has returned without an error.
C8_Capped ==
  /\ requests <= MaxIterations
  /\ Cardinality(ts_messages) <= MaxIterations * PageSize
  /\ iterations = MaxIterations =>
       (pc = "loaded" /\ error = NoError /\ requests = MaxIterations)

\* C8 witness: the collector returned at the cap and left an older message
\* of the channel out.
C8_Witness ==
  /\ pc = "loaded"
  /\ iterations = MaxIterations
  /\ error = NoError
  /\ TsOf(OlderMessages) \ ts_messages # {}

\* C9: the set the collector holds is the union of the filtered identifiers
\* of the pages it fetched.
C9_UnionOfPages ==
  pc \in {"load", "loaded"} => ts_messages = fetched

\* C9 witness: a page that repeated collected identifiers and brought new
\* ones has been added.
C9_Witness ==
  /\ pc \in {"load", "loaded"}
  /\ lastPage = "partial"
  /\ ts_messages = fetched

\* C10: a history answer with ok=false ends the operation with an error that
\* carries the channel id and the reported text; nothing is returned and no
\* delete request is issued for the rule.
C10_HistoryFailure ==
  lastErr # None =>
     /\ pc = "raised"
     /\ error = [kind |-> "history", channel |-> channel_id, text |-> lastErr]
     /\ ~Requested

\* C10 witness: the collection of a second rule failed after a page was
\* fetched.
C10_Witness ==
  /\ lastErr # None
  /\ pc = "raised"
  /\ ruleIdx = 2
  /\ requests >= 2

\* ---------------------------------------------------- the orchestration ----

\* The channel of the rule is not in the channel list.
UnknownChannel(rule) ==
  \A c \in RemoteChannels : StripHash(rule.channel) # StripHash(c[2])

\* C11: when the channel of some rule of the list cannot be resolved, the
\* run ends with the resolution error before anything else happens: no
\* history request and no delete request is issued for any rule, the rules
\* before the unresolvable one included.
C11_UnresolvableAborts ==
  (entry = "delete_messages" /\ \E i \in 1..Len(rules) : UnknownChannel(rules[i])) =>
     /\ pc \in {"start", "raised"}
     /\ ruleIdx = 0
     /\ requests = 0
     /\ ~Requested
     /\ collects = 0
     /\ passes = 0
     /\ pc = "raised" =>
          /\ error.kind = "channel"
          /\ \E i \in 1..Len(rules) :
                /\ UnknownChannel(rules[i])
                /\ error.text = StripHash(rules[i].channel)

\* C11 witness: the run was aborted although the first rule of the list
\* names a known channel that holds messages older than its cutoff.
C11_Witness ==
  /\ entry = "delete_messages"
  /\ pc = "raised"
  /\ error.kind = "channel"
  /\ Len(rules) = 2
  /\ ~UnknownChannel(rules[1])
  /\ UnknownChannel(rules[2])
  /\ \E c \in RemoteChannels :
        /\ StripHash(c[2]) = StripHash(rules[1].channel)
        /\ \E m \in history[c[1]] :
              Float(m.ts) < Now - IntOf(rules[1].days) * TicksPerDay

\* C12: after a pass returned a pause (pending, wait) the run sleeps once,
\* for wait seconds, before the next delete request, and the next pass
\* receives the pending set of the pause and the same channel id.
C12_SleepThenRetry ==
  /\ (pc = "returned" /\ result.kind = "pause") =>
        nap = [set |-> TRUE, wait |-> result.wait, seconds |-> 0, count |-> 0]
  /\ (pc = "delete" /\ nap.set) =>
        /\ nap.count = 1
        /\ nap.seconds = nap.wait
        /\ pause.set
        /\ messages = pause.pending
        /\ todo = pause.pending
        /\ channel_id = pause.channel
        /\ Attempted = {}
  /\ (pc = "delete" /\ pause.set /\ ~nap.set) => Attempted # {}

\* C12 witness: a pass over the rest of the collected set is about to
\* start, after a sleep of three seconds.
C12_Witness ==
  /\ pc = "delete"
  /\ nap.set
  /\ nap.wait = 3
  /\ nap.seconds = 3
  /\ Cardinality(messages) >= 2
  /\ messages # ts_messages

\* C13: for each rule the collector is invoked once; as long as no delete
\* answer of the rule carried a rate-limit signal the deleter is invoked
\* once for a non-empty candidate set, not at all for an empty one, and the
\* run does not sleep.
C13_OncePerRule ==
  (entry = "delete_messages" /\ pc \in {"load", "loaded", "delete", "returned"}) =>
     /\ collects = 1
     /\ pc \in {"load", "loaded"} => (passes = 0 /\ ~slept)
     /\ pc \in {"delete", "returned"} => (passes >= 1 /\ ts_messages # {})
     /\ ~limited =>
          /\ ~slept
          /\ passes <= 1
          /\ pc = "returned" => (passes = 1 /\ result.kind = None)

\* C13 witness: the only pass of a second rule has ended without a
\* rate-limit signal.
C13_Witness ==
  /\ entry = "delete_messages"
  /\ pc = "returned"
  /\ ruleIdx = 2
  /\ ~limited
  /\ passes = 1
  /\ collects = 1
  /\ Cardinality(ts_messages) >= 2

\* C14: across the passes of a rule the pending set does not grow: the
\* pending set of a pause is contained in the set that was passed into the
\* pass, the set passed into a pass is contained in the pending set of the
\* pause before it, and all of them are contained in the collected set.
C14_PendingShrinks ==
  pc \in {"delete", "returned"} =>
     /\ missing_messages \subseteq messages
     /\ messages \subseteq ts_messages
     /\ result.kind = "pause" =>
          (result.pending \subseteq messages /\ pause.pending = result.pending)
     /\ (pc = "delete" /\ pause.set) => messages \subseteq pause.pending

\* C14 witness: a second pause of a rule, whose pending set is smaller than
\* the set passed into the pass, itself smaller than the collected set.
C14_Witness ==
  /\ pc = "returned"
  /\ result.kind = "pause"
  /\ passes >= 2
  /\ result.pending # messages
  /\ messages # ts_messages

\* Identifiers of the collected set that are no longer in the channel.
DeletedIds == ts_messages \ TsOf(history[channel_id])

\* Identifiers of the rule whose delete request was answered with ok=true
\* or with a failure without rate-limit signal.
Settled == DeletedIds \cup failedIds

\* C15: when no history request fails, the run does not give up: it goes
\* on until the pass of each rule ends without a pause, and then every
\* identifier the collector returned has been answered with ok=true or
\* with a failure that carries no rate-limit signal.
C15_EndsSettled ==
  (entry = "delete_messages" /\ lastErr = None /\ error.kind # "channel") =>
     /\ pc # "raised"
     /\ (pc = "returned" /\ result.kind = None) => ts_messages \subseteq Settled

\* The last delete answer carries a rate-limit signal and none of its
\* header values is a number.
LastWaitUnusable ==
  /\ LastSignalled
  /\ \A k \in DOMAIN lastReq.headers : ~IsInt(lastReq.headers[k])

\* C16: a rate-limit signal whose wait value is empty or is not a number
\* ends the pass with a pause of the default wait, the pending set being
\* the identifiers not yet removed; nothing is raised.
C16_DefaultWait ==
  LastWaitUnusable =>
     /\ pc = "returned"
     /\ result = [kind |-> "pause", pending |-> missing_messages,
                  wait |-> DefaultRetryAfter]

\* C17: before the first history request the cursor of a collection with
\* min_days_old = 0 is the current time, the cursor of a collection
\* without min_days_old lies the default number of days before it, and the
\* two differ.
C17_ZeroIsNow ==
  (pc = "load" /\ requests = 0) =>
     /\ min_days_old = Given(0) => minimum_timestamp = Now * Resolution
     /\ min_days_old = Unset =>
          minimum_timestamp = (Now - DefaultMinDaysOld * TicksPerDay) * Resolution
     /\ (Now - DefaultMinDaysOld * TicksPerDay) * Resolution # Now * Resolution

\* C17 witness: a collection with min_days_old = 0 is about to send its
\* first request with the current time as cursor, on a channel that holds
\* a message of the last default-many days.
C17_Witness ==
  /\ pc = "load"
  /\ requests = 0
  /\ min_days_old = Given(0)
  /\ minimum_timestamp = Now * Resolution
  /\ \E m \in history[channel_id] :
        Float(m.ts) >= Now - DefaultMinDaysOld * TicksPerDay

\* C18: the counter of a pass is the number of identifiers of the pass
\* whose delete request was answered with ok=true.
C18_CountsDeleted ==
  pc \in {"delete", "returned"} =>
     number_of_deleted_messages =
        Cardinality((messages \ missing_messages) \ failedIds)

\* C19: each page that brought new identifiers moves the cursor to the
\* smallest identifier of the page minus epsilon (up to the rounding of
\* the float, which is below one tick), which lies strictly below that
\* identifier; when the pages held only messages below the cursor of their
\* request, the cursor has strictly decreased.
C19_CursorAdvances ==
  [][(pc = "load" /\ iterations' = iterations + 1) =>
        /\ lastMin' # <<>>
        /\ minimum_timestamp' \div Resolution = Float(lastMin') - Epsilon
        /\ minimum_timestamp' < Float(lastMin') * Resolution
        /\ windowOk' => minimum_timestamp' < minimum_timestamp]_vars

\* C19 witness: two pages have moved the cursor, each below its smallest
\* identifier, and every collected identifier lies above the cursor.
C19_Witness ==
  /\ pc = "load"
  /\ iterations >= 2
  /\ windowOk
  /\ lastMin # <<>>
  /\ minimum_timestamp \div Resolution = Float(lastMin) - Epsilon
  /\ \A t \in ts_messages : Float(t) * Resolution > minimum_timestamp

\* Within the passes of a rule an identifier is requested at most once per
\* pass, a settled identifier is not requested again, and an identifier
\* that was requested and is not settled is the one whose rate limit ended
\* the pass.
SettledOnce ==
  pc \in {"delete", "returned"} =>
     /\ Settled \cap todo = {}
     /\ \A t \in Attempted :
           /\ reqCount[t] = 1
           /\ t \notin Settled => (pc = "returned" /\ t = lastReq.ts /\ ~lastReq.ok)

\* C20, as stated: a settled identifier is not requested again, only the
\* identifiers answered with a rate-limit signal are requested more than
\* once, and each of them has been requested again when the following
\* pass returns.
C20_RetriedInNextPass ==
  /\ SettledOnce
  /\ pc = "returned" => owed = <<>>

\* C20, amended: a settled identifier is not requested again, only the
\* identifiers answered with a rate-limit signal are requested more than
\* once, and each of them is passed into the following pass, where it
\* stays pending until it is requested again: it has been requested again
\* when that pass ends without a pause, and is in the pending set when
\* that pass is paused before reaching it.
C20_RetriedOrPending ==
  /\ SettledOnce
  /\ (pc = "delete" /\ owed # <<>>) => (owed \in todo /\ owed \in missing_messages)
  /\ (pc = "returned" /\ result.kind = None) => owed = <<>>
  /\ (pc = "returned" /\ result.kind = "pause" /\ owed # <<>>) =>
        (owed \in result.pending /\ owed # lastReq.ts)

\* C20 witness: the pass after a pause was paused by the rate limit of
\* another identifier, after it settled one; the identifier of the first
\* rate limit is still pending and has not been requested again.
C20_Witness ==
  /\ pc = "returned"
  /\ result.kind = "pause"
  /\ owed # <<>>
  /\ owed \in result.pending
  /\ reqCount[owed] = 0
  /\ Settled \cap messages # {}
  /\ result.wait = 3

====
